---------------------------- MODULE Spec2Model ----------------------------
(* A model of htmlimports.js (the polyfill path): the recursive import      *)
(* expansion of _AddImport, the scanner, the dependency grouper, the        *)
(* de-duplication set, the progress counters and the script-origin map.     *)
(*                                                                          *)
(* JavaScript runs one task at a time.  A task is an event of the host (a   *)
(* call of addImport, the completion of an XMLHttpRequest, the load or      *)
(* error event of an inserted element); the promise reactions it makes      *)
(* runnable (the microtasks) all run before the next event is taken.  Each  *)
(* promise reaction of _AddImport is one action below; the events are       *)
(* enabled only when no reaction is runnable.                               *)
EXTENDS Naturals, Sequences, FiniteSets, TLC

(***************************************************************************)
(* Bounds of the model.                                                    *)
(***************************************************************************)
\* the longest list of child elements of one fetched document
MaxElems == 2
\* the number of child elements of all the documents served, together
MaxTotal == 5
\* the number of requests and loads that fail
MaxFailures == 1

(***************************************************************************)
(* The host: the page, the server and the elements a document may hold.    *)
(***************************************************************************)
\* location.origin of the page that includes htmlimports.js
Origin == "http://h"
\* the directories the including page may be served from
PageDirs == {"/", "/app/"}
\* the import documents the server holds, as the page refers to them
Pages == {"lib/a.html", "lib/b.html", "lib/c.html"}
\* the urls addImport is called with
RootUrls == {"lib/a.html"}

\* the child elements a served document is made of
Elements ==
    [tagName : {"LINK"}, rel : {"import"}, href : {"a.html", "b.html", "c.html"}]
    \cup [tagName : {"LINK"}, rel : {"stylesheet"}, href : {"s.css"}]
    \cup [tagName : {"SCRIPT"}, src : {"x.js", "y.js"}]

RECURSIVE SeqsUpTo(_, _)
\* the sequences over S of length at most n
SeqsUpTo(S, n) ==
    IF n = 0 THEN {<< >>}
    ELSE LET shorter == SeqsUpTo(S, n - 1)
         IN shorter \cup {Append(s, e) : s \in {t \in shorter : Len(t) = n - 1}, e \in S}

\* the number of leading link elements of a list of elements
RECURSIVE Links(_, _)
Links(s, i) == IF i <= Len(s) /\ s[i].tagName = "LINK" THEN Links(s, i + 1) ELSE i - 1

\* the documents the server may hold: the leading link elements are the
\* children of the head, the elements after them the children of the body
Docs ==
    {[head |-> SubSeq(s, 1, Links(s, 1)), body |-> SubSeq(s, Links(s, 1) + 1, Len(s))] :
        s \in SeqsUpTo(Elements, MaxElems)}

Max(S) == CHOOSE m \in S : \A k \in S : k <= m

(***************************************************************************)
(* Strings.                                                                *)
(***************************************************************************)
\* String.prototype.lastIndexOf for a one-character needle, 1-based; 0 is
\* JavaScript's -1
LastIndexOf(s, ch) ==
    LET at == {i \in 1..Len(s) : SubSeq(s, i, i) = ch}
    IN IF at = {} THEN 0 ELSE Max(at)

\* String.prototype.toLowerCase on the names the model uses
ToLowerCase(s) ==
    CASE s = "LINK" -> "link"
      [] s = "SCRIPT" -> "script"
      [] s = "DIV" -> "div"
      [] OTHER -> s

GetPathFromURL(url) ==
    IF Len(url) = 0 THEN url
    ELSE LET lastCh == SubSeq(url, Len(url), Len(url))
         IN IF lastCh = "/" \/ lastCh = "\\" THEN url
            ELSE LET fwd == LastIndexOf(url, "/")
                     last_slash == IF fwd = 0 THEN LastIndexOf(url, "\\") ELSE fwd
                 IN IF last_slash = 0 THEN "" ELSE SubSeq(url, 1, last_slash)

(***************************************************************************)
(* The scanner.                                                            *)
(***************************************************************************)
\* CheckForImportElement: the descriptors one element adds to
\* context.dependencies; pos, the descriptor's place in that list, is kept
\* with it to name it
ElementDeps(elem, baseUrl, pos) ==
    LET tagName == ToLowerCase(elem.tagName)
    IN IF tagName = "link"
       THEN LET rel == ToLowerCase(elem.rel)
            IN IF rel = "import"
               THEN <<[type |-> "import", url |-> baseUrl \o elem.href, pos |-> pos]>>
               ELSE IF rel = "stylesheet"
               THEN <<[type |-> "stylesheet", url |-> baseUrl \o elem.href, pos |-> pos]>>
               ELSE << >>
       ELSE IF tagName = "script"
       THEN <<[type |-> "script", url |-> baseUrl \o elem.src, pos |-> pos]>>
       ELSE << >>

\* new URL(scriptUrl, location.origin).toString() for a relative scriptUrl
ScriptKey(scriptUrl) == Origin \o "/" \o scriptUrl

\* CheckForImportElement: the script-origin map after one element
ElementMap(map, elem, baseUrl, importDoc) ==
    IF ToLowerCase(elem.tagName) = "script"
    THEN LET key == ScriptKey(baseUrl \o elem.src)
         IN [k \in DOMAIN map \cup {key} |-> IF k = key THEN importDoc ELSE map[k]]
    ELSE map

RECURSIVE FindImportElements(_, _, _, _)
\* FindImportElements: the children in order, from the i-th; the
\* dependencies and the map after them
FindImportElements(children, i, ctx, baseUrl) ==
    IF i > Len(children) THEN ctx
    ELSE FindImportElements(children, i + 1,
            [dependencies |-> ctx.dependencies
                                \o ElementDeps(children[i], baseUrl, Len(ctx.dependencies) + 1),
             map |-> ElementMap(ctx.map, children[i], baseUrl, ctx.importDoc),
             importDoc |-> ctx.importDoc],
            baseUrl)

(***************************************************************************)
(* The dependency grouper.                                                 *)
(***************************************************************************)
RECURSIVE GroupLoopLosingFirst(_, _, _, _, _)
\* a slip in line 161: the new group starts empty, not with the descriptor
GroupLoopLosingFirst(dependencies, i, stylesheets, groups, currentGroup) ==
    IF i > Len(dependencies)
    THEN [stylesheets |-> stylesheets,
          groups |-> IF Len(currentGroup) # 0 THEN Append(groups, currentGroup) ELSE groups]
    ELSE LET dep == dependencies[i]
         IN IF dep.type = "stylesheet"
            THEN GroupLoopLosingFirst(dependencies, i + 1, Append(stylesheets, dep), groups,
                                      currentGroup)
            ELSE IF Len(currentGroup) = 0
            THEN GroupLoopLosingFirst(dependencies, i + 1, stylesheets, groups,
                                      Append(currentGroup, dep))
            ELSE IF currentGroup[Len(currentGroup)].type = "script" /\ dep.type = "script"
            THEN GroupLoopLosingFirst(dependencies, i + 1, stylesheets, groups,
                                      Append(currentGroup, dep))
            ELSE GroupLoopLosingFirst(dependencies, i + 1, stylesheets,
                                      Append(groups, currentGroup), << >>)

RECURSIVE GroupLoopSameTypeGrouped(_, _, _, _, _)
\* a slip in line 154: contiguous descriptors of any one type are grouped
GroupLoopSameTypeGrouped(dependencies, i, stylesheets, groups, currentGroup) ==
    IF i > Len(dependencies)
    THEN [stylesheets |-> stylesheets,
          groups |-> IF Len(currentGroup) # 0 THEN Append(groups, currentGroup) ELSE groups]
    ELSE LET dep == dependencies[i]
         IN IF dep.type = "stylesheet"
            THEN GroupLoopSameTypeGrouped(dependencies, i + 1, Append(stylesheets, dep),
                                          groups, currentGroup)
            ELSE IF Len(currentGroup) = 0
            THEN GroupLoopSameTypeGrouped(dependencies, i + 1, stylesheets, groups,
                                          Append(currentGroup, dep))
            ELSE IF currentGroup[Len(currentGroup)].type = dep.type
            THEN GroupLoopSameTypeGrouped(dependencies, i + 1, stylesheets, groups,
                                          Append(currentGroup, dep))
            ELSE GroupLoopSameTypeGrouped(dependencies, i + 1, stylesheets,
                                          Append(groups, currentGroup), <<dep>>)

RECURSIVE GroupLoopStylesheetTestedLate(_, _, _, _, _)
\* a slip in lines 142-149: the test for an empty group comes before the
\* test for a stylesheet
GroupLoopStylesheetTestedLate(dependencies, i, stylesheets, groups, currentGroup) ==
    IF i > Len(dependencies)
    THEN [stylesheets |-> stylesheets,
          groups |-> IF Len(currentGroup) # 0 THEN Append(groups, currentGroup) ELSE groups]
    ELSE LET dep == dependencies[i]
         IN IF Len(currentGroup) = 0
            THEN GroupLoopStylesheetTestedLate(dependencies, i + 1, stylesheets, groups,
                                               Append(currentGroup, dep))
            ELSE IF dep.type = "stylesheet"
            THEN GroupLoopStylesheetTestedLate(dependencies, i + 1,
                                               Append(stylesheets, dep), groups, currentGroup)
            ELSE IF currentGroup[Len(currentGroup)].type = "script" /\ dep.type = "script"
            THEN GroupLoopStylesheetTestedLate(dependencies, i + 1, stylesheets, groups,
                                               Append(currentGroup, dep))
            ELSE GroupLoopStylesheetTestedLate(dependencies, i + 1, stylesheets,
                                               Append(groups, currentGroup), <<dep>>)

RECURSIVE GroupLoopBrokenByStylesheet(_, _, _, _, _)
\* a slip in lines 142-145: a stylesheet also closes the group being built
GroupLoopBrokenByStylesheet(dependencies, i, stylesheets, groups, currentGroup) ==
    IF i > Len(dependencies)
    THEN [stylesheets |-> stylesheets,
          groups |-> IF Len(currentGroup) # 0 THEN Append(groups, currentGroup) ELSE groups]
    ELSE LET dep == dependencies[i]
         IN IF dep.type = "stylesheet"
            THEN GroupLoopBrokenByStylesheet(dependencies, i + 1, Append(stylesheets, dep),
                    IF Len(currentGroup) # 0 THEN Append(groups, currentGroup) ELSE groups,
                    << >>)
            ELSE IF Len(currentGroup) = 0
            THEN GroupLoopBrokenByStylesheet(dependencies, i + 1, stylesheets, groups,
                                             Append(currentGroup, dep))
            ELSE IF currentGroup[Len(currentGroup)].type = "script" /\ dep.type = "script"
            THEN GroupLoopBrokenByStylesheet(dependencies, i + 1, stylesheets, groups,
                                             Append(currentGroup, dep))
            ELSE GroupLoopBrokenByStylesheet(dependencies, i + 1, stylesheets,
                                             Append(groups, currentGroup), <<dep>>)

RECURSIVE GroupLoop(_, _, _, _, _)
\* the loop of GroupDependencies from the i-th descriptor
GroupLoop(dependencies, i, stylesheets, groups, currentGroup) ==
    IF i > Len(dependencies)
    THEN [stylesheets |-> stylesheets,
          groups |-> IF Len(currentGroup) # 0 THEN Append(groups, currentGroup) ELSE groups]
    ELSE LET dep == dependencies[i]
             type == dep.type
         IN IF type = "stylesheet"
            THEN GroupLoop(dependencies, i + 1, Append(stylesheets, dep), groups, currentGroup)
            ELSE IF Len(currentGroup) = 0
            THEN GroupLoop(dependencies, i + 1, stylesheets, groups, Append(currentGroup, dep))
            ELSE LET lastType == currentGroup[Len(currentGroup)].type
                 IN IF lastType = "script" /\ type = "script"
                    THEN GroupLoop(dependencies, i + 1, stylesheets, groups,
                                   Append(currentGroup, dep))
                    ELSE GroupLoop(dependencies, i + 1, stylesheets,
                                   Append(groups, currentGroup), <<dep>>)

\* a slip in lines 160 and 167: each group is put in front of the groups
\* before it (unshift for push)
GroupDependenciesReversed(dependencies) ==
    LET organised == GroupLoop(dependencies, 1, << >>, << >>, << >>)
    IN [stylesheets |-> organised.stylesheets,
        groups |-> [i \in 1..Len(organised.groups) |->
                       organised.groups[Len(organised.groups) + 1 - i]]]

GroupDependencies(dependencies) == GroupLoop(dependencies, 1, << >>, << >>, << >>)

(***************************************************************************)
(* Values.                                                                 *)
(***************************************************************************)
\* the value undefined
Undefined == [kind |-> "undefined"]
\* the main document (the global document)
MainDocument == [kind |-> "main"]
\* the document object the f-th XMLHttpRequest answered with
Document(f) == [kind |-> "import", id |-> f]
\* a promise and its settlement
Pending == [state |-> "pending"]
Fulfilled(v) == [state |-> "fulfilled", value |-> v]

(***************************************************************************)
(* The state.                                                              *)
(***************************************************************************)
VARIABLES
    location,               \* the directory of the including page
    web,                    \* the documents the server has served, by url
    fetches,                \* the XMLHttpRequests of FetchAs, in order of send
    scriptUrlToImportDoc,   \* the script-origin map
    alreadyImportedUrls,    \* rootContext.alreadyImportedUrls
    progress,               \* rootContext.progress
    stylePromises,          \* rootContext.stylePromises
    scriptPromises,         \* rootContext.scriptPromises
    expansions,             \* the calls of _AddImport, in order of call
    stack                   \* the calls of _AddImport not yet resolved, outermost first

vars == <<location, web, fetches, scriptUrlToImportDoc, alreadyImportedUrls, progress,
          stylePromises, scriptPromises, expansions, stack>>

Init ==
    /\ location \in PageDirs
    /\ web = << >>
    /\ fetches = << >>
    /\ scriptUrlToImportDoc = << >>
    /\ alreadyImportedUrls = {}
    /\ progress = [loaded |-> 0, total |-> 0]
    /\ stylePromises = << >>
    /\ scriptPromises = << >>
    /\ expansions = << >>
    /\ stack = << >>

\* FetchAs: the request sent
FetchAs(url) == [url |-> url, state |-> "pending"]

\* AddStylesheet: the link element appended to the head and its promise
AddStylesheet(url, exp) == [url |-> url, state |-> "pending", exp |-> exp]

\* AddScriptTag: the script element appended to the head and its promise;
\* exp and pos name the descriptor it was made for, currentDoc is what
\* getImportDocument() returned when the script ran
AddScriptTag(url, exp, pos) ==
    [url |-> url, state |-> "pending", exp |-> exp, pos |-> pos, currentDoc |-> Undefined]

\* the innermost unresolved call of _AddImport
Top == stack[Len(stack)]

\* the number of child elements of the documents served so far
Served == LET RECURSIVE Sum(_)
              Sum(S) == IF S = {} THEN 0
                        ELSE LET u == CHOOSE v \in S : TRUE
                             IN Len(web[u].head) + Len(web[u].body) + Sum(S \ {u})
          IN Sum(DOMAIN web)

\* a call of _AddImport: its arguments, its context and its place in its
\* promise chain.  doc is the request its document comes from, st the
\* reaction it waits to run ("load": line 210, "chain": the gi-th group of
\* line 253, "all": line 302, "done": resolved)
NewCall(url, isRoot, doc) ==
    [url |-> url, isRoot |-> isRoot, doc |-> doc,
     importDoc |-> Undefined, baseUrl |-> GetPathFromURL(url), dependencies |-> << >>,
     groups |-> << >>, subImportFetches |-> << >>, gi |-> 0, st |-> "load",
     result |-> Pending]

\* Promise.all: rejected as soon as one of the promises is
AnyRejected(promises) == \E i \in 1..Len(promises) : promises[i].state = "rejected"
\* Promise.all: fulfilled when all of the promises are
AllFulfilled(promises) == \A i \in 1..Len(promises) : promises[i].state = "fulfilled"

\* a slip in lines 302-305: the root waits for the scripts alone
AllScriptsLoaded == AllFulfilled(scriptPromises)

\* lines 302-305: the promises the root waits for are all fulfilled
AllLoaded == AllFulfilled(stylePromises) /\ AllFulfilled(scriptPromises)

\* lines 302-305: one of the promises the root waits for is rejected
SomeFailed == AnyRejected(stylePromises) \/ AnyRejected(scriptPromises)

\* a slip in lines 300-311: a sub-import too waits, when its chain is
\* through, for the promises collected so far
RunnableAwaitingLoads ==
    /\ stack # << >>
    /\ LET c == expansions[Top]
       IN CASE c.st = "load" -> fetches[c.doc].state # "pending"
            [] c.st = "chain" ->
                IF c.gi > Len(c.groups) THEN c.isRoot \/ SomeFailed \/ AllLoaded
                ELSE LET dep == c.groups[c.gi][1]
                     IN IF dep.type = "import" /\ dep.url \in DOMAIN c.subImportFetches
                        THEN fetches[c.subImportFetches[dep.url]].state # "pending"
                        ELSE TRUE
            [] c.st = "all" -> SomeFailed \/ AllLoaded
            [] OTHER -> FALSE

\* a reaction of the innermost call can run
Runnable ==
    /\ stack # << >>
    /\ LET c == expansions[Top]
       IN CASE c.st = "load" -> fetches[c.doc].state # "pending"
            [] c.st = "chain" ->
                IF c.gi > Len(c.groups) THEN TRUE
                ELSE LET dep == c.groups[c.gi][1]
                     IN IF dep.type = "import" /\ dep.url \in DOMAIN c.subImportFetches
                        THEN fetches[c.subImportFetches[dep.url]].state # "pending"
                        ELSE TRUE
            [] c.st = "all" -> SomeFailed \/ AllLoaded
            [] OTHER -> FALSE

\* a slip in lines 313-317: the value of line 313 also after an error
ResolutionIgnoringError(c, failed) == c.importDoc

\* lines 313-317: what the promise of a call resolves with
Resolution(c, failed) == IF failed THEN Undefined ELSE c.importDoc

\* the call e resolves with v (lines 313-317); the caller's reaction of line
\* 273 counts it and the caller's chain goes on to its next group
Returned(exps, prog, e, v) ==
    LET resolved == [exps EXCEPT ![e].result = Fulfilled(v), ![e].st = "done"]
    IN IF Len(stack) = 1
       THEN [expansions |-> resolved, progress |-> prog, stack |-> << >>]
       ELSE LET caller == stack[Len(stack) - 1]
            IN [expansions |-> [resolved EXCEPT ![caller].gi = @ + 1],
                progress |-> [prog EXCEPT !.loaded = @ + 1],
                stack |-> SubSeq(stack, 1, Len(stack) - 1)]

RECURSIVE PrefetchLoopFirstOnly(_, _, _)
\* a slip in lines 238-243: the loop is left after the first request sent
PrefetchLoopFirstOnly(groups, i, acc) ==
    IF i > Len(groups) THEN acc
    ELSE LET type == groups[i][1].type
             url == groups[i][1].url
         IN IF type = "import" /\ url \notin acc.alreadyImportedUrls
            THEN [subImportFetches |->
                     [u \in DOMAIN acc.subImportFetches \cup {url} |->
                         IF u = url THEN Len(acc.fetches) + 1
                         ELSE acc.subImportFetches[u]],
                  alreadyImportedUrls |-> acc.alreadyImportedUrls \cup {url},
                  total |-> acc.total + 1,
                  fetches |-> Append(acc.fetches, FetchAs(url))]
            ELSE PrefetchLoopFirstOnly(groups, i + 1, acc)

RECURSIVE PrefetchLoopWithoutDedup(_, _, _)
\* a slip in line 238: the test of the dedup set is left out
PrefetchLoopWithoutDedup(groups, i, acc) ==
    IF i > Len(groups) THEN acc
    ELSE LET type == groups[i][1].type
             url == groups[i][1].url
         IN IF type = "import"
            THEN PrefetchLoopWithoutDedup(groups, i + 1,
                    [subImportFetches |->
                        [u \in DOMAIN acc.subImportFetches \cup {url} |->
                            IF u = url THEN Len(acc.fetches) + 1
                            ELSE acc.subImportFetches[u]],
                     alreadyImportedUrls |-> acc.alreadyImportedUrls \cup {url},
                     total |-> acc.total + 1,
                     fetches |-> Append(acc.fetches, FetchAs(url))])
            ELSE PrefetchLoopWithoutDedup(groups, i + 1, acc)

RECURSIVE PrefetchLoop(_, _, _)
\* lines 228-245: the loop over the groups from the i-th; acc holds
\* subImportFetches, alreadyImportedUrls, progress.total and the requests
PrefetchLoop(groups, i, acc) ==
    IF i > Len(groups) THEN acc
    ELSE LET type == groups[i][1].type
             url == groups[i][1].url
         IN IF type = "import" /\ url \notin acc.alreadyImportedUrls
            THEN PrefetchLoop(groups, i + 1,
                    [subImportFetches |->
                        [u \in DOMAIN acc.subImportFetches \cup {url} |->
                            IF u = url THEN Len(acc.fetches) + 1
                            ELSE acc.subImportFetches[u]],
                     alreadyImportedUrls |-> acc.alreadyImportedUrls \cup {url},
                     total |-> acc.total + 1,
                     fetches |-> Append(acc.fetches, FetchAs(url))])
            ELSE PrefetchLoop(groups, i + 1, acc)

\* lines 253-291: the loop that builds the chain throws
ChainThrows(groups) ==
    \E i \in 1..Len(groups) :
        \/ groups[i][1].type = "import" /\ Len(groups[i]) # 1
        \/ groups[i][1].type \notin {"import", "script"}

\* GetImportDocument on the polyfill path
GetImportDocument(currentScriptSrc) ==
    IF currentScriptSrc \in DOMAIN scriptUrlToImportDoc
    THEN scriptUrlToImportDoc[currentScriptSrc]
    ELSE MainDocument

\* document.currentScript.src: the src of the inserted element, resolved
\* against the including page
CurrentScriptSrc(url) == Origin \o location \o url

(***************************************************************************)
(* Events of the host.                                                     *)
(***************************************************************************)
\* AddImport on the polyfill path and _AddImport to line 209 for the root
AddImport(url) ==
    /\ expansions = << >>
    /\ alreadyImportedUrls' = {}
    /\ stylePromises' = << >>
    /\ scriptPromises' = << >>
    /\ progress' = [loaded |-> 0, total |-> 1]
    /\ fetches' = Append(fetches, FetchAs(url))
    /\ expansions' = <<NewCall(url, TRUE, Len(fetches) + 1)>>
    /\ stack' = <<1>>
    /\ UNCHANGED <<location, web, scriptUrlToImportDoc>>

\* the requests and loads that have failed so far
Failures ==
    Cardinality({f \in 1..Len(fetches) : fetches[f].state = "fail"})
    + Cardinality({i \in 1..Len(scriptPromises) : scriptPromises[i].state = "rejected"})
    + Cardinality({i \in 1..Len(stylePromises) : stylePromises[i].state = "rejected"})

\* xhr.onload with a status of 200 to 299: the request f is answered with
\* the document the server holds for its url
XhrLoad(f) ==
    /\ ~Runnable
    /\ fetches[f].state = "pending"
    /\ fetches[f].url \in Pages
    /\ IF fetches[f].url \in DOMAIN web
       THEN UNCHANGED web
       ELSE \E doc \in Docs :
               /\ Served + Len(doc.head) + Len(doc.body) <= MaxTotal
               /\ web' = [u \in DOMAIN web \cup {fetches[f].url} |->
                             IF u = fetches[f].url THEN doc ELSE web[u]]
    /\ fetches' = [fetches EXCEPT ![f].state = "ok"]
    /\ UNCHANGED <<location, scriptUrlToImportDoc, alreadyImportedUrls, progress,
                   stylePromises, scriptPromises, expansions, stack>>

\* xhr.onerror, or xhr.onload with another status
XhrError(f) ==
    /\ ~Runnable
    /\ Failures < MaxFailures
    /\ fetches[f].state = "pending"
    /\ fetches' = [fetches EXCEPT ![f].state = "fail"]
    /\ UNCHANGED <<location, web, scriptUrlToImportDoc, alreadyImportedUrls, progress,
                   stylePromises, scriptPromises, expansions, stack>>

\* the i-th inserted script runs, calls getImportDocument(), and elem.onload
ScriptLoad(i) ==
    /\ ~Runnable
    /\ scriptPromises[i].state = "pending"
    /\ scriptPromises' =
          [scriptPromises EXCEPT
              ![i].state = "fulfilled",
              ![i].currentDoc = GetImportDocument(CurrentScriptSrc(scriptPromises[i].url))]
    /\ UNCHANGED <<location, web, fetches, scriptUrlToImportDoc, alreadyImportedUrls,
                   progress, stylePromises, expansions, stack>>

\* elem.onerror of the i-th inserted script
ScriptError(i) ==
    /\ ~Runnable
    /\ Failures < MaxFailures
    /\ scriptPromises[i].state = "pending"
    /\ scriptPromises' = [scriptPromises EXCEPT ![i].state = "rejected"]
    /\ UNCHANGED <<location, web, fetches, scriptUrlToImportDoc, alreadyImportedUrls,
                   progress, stylePromises, expansions, stack>>

\* elem.onload of the i-th inserted stylesheet
StyleLoad(i) ==
    /\ ~Runnable
    /\ stylePromises[i].state = "pending"
    /\ stylePromises' = [stylePromises EXCEPT ![i].state = "fulfilled"]
    /\ UNCHANGED <<location, web, fetches, scriptUrlToImportDoc, alreadyImportedUrls,
                   progress, scriptPromises, expansions, stack>>

\* elem.onerror of the i-th inserted stylesheet
StyleError(i) ==
    /\ ~Runnable
    /\ Failures < MaxFailures
    /\ stylePromises[i].state = "pending"
    /\ stylePromises' = [stylePromises EXCEPT ![i].state = "rejected"]
    /\ UNCHANGED <<location, web, fetches, scriptUrlToImportDoc, alreadyImportedUrls,
                   progress, scriptPromises, expansions, stack>>

(***************************************************************************)
(* Promise reactions of _AddImport, for the innermost unresolved call.     *)
(***************************************************************************)
\* lines 210-293: the document is there; scan it, group its dependencies,
\* insert its stylesheets, send the requests of its new imports, build the
\* chain of its groups
OnDocument ==
    /\ stack # << >>
    /\ expansions[Top].st = "load"
    /\ fetches[expansions[Top].doc].state = "ok"
    /\ LET e == Top
           c == expansions[e]
           doc == web[fetches[c.doc].url]
           importDoc == Document(c.doc)
           inHead == FindImportElements(doc.head, 1,
                        [dependencies |-> << >>, map |-> scriptUrlToImportDoc,
                         importDoc |-> importDoc], c.baseUrl)
           context == FindImportElements(doc.body, 1, inHead, c.baseUrl)
           organisedDeps == GroupDependencies(context.dependencies)
           pre == PrefetchLoop(organisedDeps.groups, 1,
                        [subImportFetches |-> << >>,
                         alreadyImportedUrls |-> alreadyImportedUrls,
                         total |-> progress.total, fetches |-> fetches])
           scanned == [expansions EXCEPT
                          ![e].importDoc = importDoc,
                          ![e].dependencies = context.dependencies,
                          ![e].groups = organisedDeps.groups,
                          ![e].subImportFetches = pre.subImportFetches,
                          ![e].gi = 1,
                          ![e].st = "chain"]
           counted == [progress EXCEPT !.total = pre.total]
           thrown == Returned(scanned, counted, e, Resolution(scanned[e], TRUE))
       IN /\ scriptUrlToImportDoc' = context.map
          /\ stylePromises' = stylePromises \o
                [i \in 1..Len(organisedDeps.stylesheets) |->
                    AddStylesheet(organisedDeps.stylesheets[i].url, e)]
          /\ fetches' = pre.fetches
          /\ alreadyImportedUrls' = pre.alreadyImportedUrls
          /\ IF ChainThrows(organisedDeps.groups)
             THEN /\ expansions' = thrown.expansions
                  /\ progress' = thrown.progress
                  /\ stack' = thrown.stack
             ELSE /\ expansions' = scanned
                  /\ progress' = counted
                  /\ stack' = stack
    /\ UNCHANGED <<location, web, scriptPromises>>

\* lines 314-317 for a rejected loadDocPromise: the document of the root
\* could not be fetched
OnDocumentError ==
    /\ stack # << >>
    /\ expansions[Top].st = "load"
    /\ fetches[expansions[Top].doc].state = "fail"
    /\ LET r == Returned(expansions, progress, Top, Resolution(expansions[Top], TRUE))
       IN /\ expansions' = r.expansions
          /\ progress' = r.progress
          /\ stack' = r.stack
    /\ UNCHANGED <<location, web, fetches, scriptUrlToImportDoc, alreadyImportedUrls,
                   stylePromises, scriptPromises>>

\* the group the chain of the innermost call has come to
AtGroup(type) ==
    /\ stack # << >>
    /\ expansions[Top].st = "chain"
    /\ expansions[Top].gi <= Len(expansions[Top].groups)
    /\ expansions[Top].groups[expansions[Top].gi][1].type = type

\* a slip in line 270: a de-duplicated import throws, the chain is rejected
\* and the call resolves with undefined
OnImportDeduplicatedThrows ==
    /\ AtGroup("import")
    /\ LET c == expansions[Top]
           r == Returned(expansions, progress, Top, Undefined)
       IN /\ c.groups[c.gi][1].url \notin DOMAIN c.subImportFetches
          /\ expansions' = r.expansions
          /\ progress' = r.progress
          /\ stack' = r.stack
    /\ UNCHANGED <<location, web, fetches, scriptUrlToImportDoc, alreadyImportedUrls,
                   stylePromises, scriptPromises>>

\* lines 266-270: an import group whose url this call did not queue
OnImportDeduplicated ==
    /\ AtGroup("import")
    /\ LET c == expansions[Top]
       IN c.groups[c.gi][1].url \notin DOMAIN c.subImportFetches
    /\ expansions' = [expansions EXCEPT ![Top].gi = @ + 1]
    /\ UNCHANGED <<location, web, fetches, scriptUrlToImportDoc, alreadyImportedUrls,
                   progress, stylePromises, scriptPromises, stack>>

\* lines 266-272: an import group whose document has arrived; _AddImport is
\* called for it, to line 209
OnImportFetched ==
    /\ AtGroup("import")
    /\ LET c == expansions[Top]
           url == c.groups[c.gi][1].url
       IN /\ url \in DOMAIN c.subImportFetches
          /\ fetches[c.subImportFetches[url]].state = "ok"
          /\ expansions' = Append(expansions, NewCall(url, FALSE, c.subImportFetches[url]))
          /\ stack' = Append(stack, Len(expansions) + 1)
    /\ UNCHANGED <<location, web, fetches, scriptUrlToImportDoc, alreadyImportedUrls,
                   progress, stylePromises, scriptPromises>>

\* lines 266-272 and 314-317: an import group whose request failed; the
\* chain is rejected, the groups after it are skipped and the call resolves
OnImportError ==
    /\ AtGroup("import")
    /\ LET c == expansions[Top]
           url == c.groups[c.gi][1].url
           r == Returned(expansions, progress, Top, Resolution(c, TRUE))
       IN /\ url \in DOMAIN c.subImportFetches
          /\ fetches[c.subImportFetches[url]].state = "fail"
          /\ expansions' = r.expansions
          /\ progress' = r.progress
          /\ stack' = r.stack
    /\ UNCHANGED <<location, web, fetches, scriptUrlToImportDoc, alreadyImportedUrls,
                   stylePromises, scriptPromises>>

\* a slip in lines 283-286: the tags of a group inserted last script first
ScriptTagsReversed(group, exp) ==
    [i \in 1..Len(group) |->
        AddScriptTag(group[Len(group) + 1 - i].url, exp, group[Len(group) + 1 - i].pos)]

\* lines 281-287: the script tags of a script group, in the group's order
ScriptTags(group, exp) ==
    [i \in 1..Len(group) |-> AddScriptTag(group[i].url, exp, group[i].pos)]

\* lines 281-287: a script group
OnScripts ==
    /\ AtGroup("script")
    /\ scriptPromises' =
          scriptPromises \o ScriptTags(expansions[Top].groups[expansions[Top].gi], Top)
    /\ expansions' = [expansions EXCEPT ![Top].gi = @ + 1]
    /\ UNCHANGED <<location, web, fetches, scriptUrlToImportDoc, alreadyImportedUrls,
                   progress, stylePromises, stack>>

\* lines 295-313 for a sub-import: the chain is through, the call resolves
\* with its document
OnChainDone ==
    /\ stack # << >>
    /\ expansions[Top].st = "chain"
    /\ expansions[Top].gi > Len(expansions[Top].groups)
    /\ ~expansions[Top].isRoot
    /\ LET r == Returned(expansions, progress, Top, Resolution(expansions[Top], FALSE))
       IN /\ expansions' = r.expansions
          /\ progress' = r.progress
          /\ stack' = r.stack
    /\ UNCHANGED <<location, web, fetches, scriptUrlToImportDoc, alreadyImportedUrls,
                   stylePromises, scriptPromises>>

\* lines 295-305 for the root: the chain is through, the root waits for the
\* collected promises
OnRootChainDone ==
    /\ stack # << >>
    /\ expansions[Top].st = "chain"
    /\ expansions[Top].gi > Len(expansions[Top].groups)
    /\ expansions[Top].isRoot
    /\ expansions' = [expansions EXCEPT ![Top].st = "all"]
    /\ UNCHANGED <<location, web, fetches, scriptUrlToImportDoc, alreadyImportedUrls,
                   progress, stylePromises, scriptPromises, stack>>

\* lines 306-313: everything has loaded; the root is counted and resolves
OnAllLoaded ==
    /\ stack # << >>
    /\ expansions[Top].st = "all"
    /\ AllLoaded
    /\ LET r == Returned(expansions, [progress EXCEPT !.loaded = @ + 1], Top,
                         Resolution(expansions[Top], FALSE))
       IN /\ expansions' = r.expansions
          /\ progress' = r.progress
          /\ stack' = r.stack
    /\ UNCHANGED <<location, web, fetches, scriptUrlToImportDoc, alreadyImportedUrls,
                   stylePromises, scriptPromises>>

\* lines 302-305 and 314-317: a script or a stylesheet failed to load
OnLoadError ==
    /\ stack # << >>
    /\ expansions[Top].st = "all"
    /\ SomeFailed
    /\ LET r == Returned(expansions, progress, Top, Resolution(expansions[Top], TRUE))
       IN /\ expansions' = r.expansions
          /\ progress' = r.progress
          /\ stack' = r.stack
    /\ UNCHANGED <<location, web, fetches, scriptUrlToImportDoc, alreadyImportedUrls,
                   stylePromises, scriptPromises>>

Next ==
    \/ \E url \in RootUrls : AddImport(url)
    \/ \E f \in 1..Len(fetches) : XhrLoad(f)
    \/ \E f \in 1..Len(fetches) : XhrError(f)
    \/ \E i \in 1..Len(scriptPromises) : ScriptLoad(i)
    \/ \E i \in 1..Len(scriptPromises) : ScriptError(i)
    \/ \E i \in 1..Len(stylePromises) : StyleLoad(i)
    \/ \E i \in 1..Len(stylePromises) : StyleError(i)
    \/ OnDocument
    \/ OnDocumentError
    \/ OnImportDeduplicated
    \/ OnImportFetched
    \/ OnImportError
    \/ OnScripts
    \/ OnChainDone
    \/ OnRootChainDone
    \/ OnAllLoaded
    \/ OnLoadError

Spec == Init /\ [][Next]_vars

(***************************************************************************)
(* The same program on a page whose root import is a longer document.      *)
(***************************************************************************)
\* the longest list of child elements of the root's document
MaxRun == 3

\* the child elements the root's document is made of
RunElements ==
    {[tagName |-> "SCRIPT", src |-> "x.js"],
     [tagName |-> "SCRIPT", src |-> "y.js"],
     [tagName |-> "LINK", rel |-> "stylesheet", href |-> "s.css"],
     [tagName |-> "LINK", rel |-> "import", href |-> "b.html"]}

\* the documents the server may hold for the root's url
RunDocs ==
    {[head |-> SubSeq(s, 1, Links(s, 1)), body |-> SubSeq(s, Links(s, 1) + 1, Len(s))] :
        s \in SeqsUpTo(RunElements, MaxRun)}

\* the state after construction, the server holding the root's document
InitRuns ==
    /\ location \in PageDirs
    /\ web \in {[u \in RootUrls |-> doc] : doc \in RunDocs}
    /\ fetches = << >>
    /\ scriptUrlToImportDoc = << >>
    /\ alreadyImportedUrls = {}
    /\ progress = [loaded |-> 0, total |-> 0]
    /\ stylePromises = << >>
    /\ scriptPromises = << >>
    /\ expansions = << >>
    /\ stack = << >>

SpecRuns == InitRuns /\ [][Next]_vars

(***************************************************************************)
(* The program when every request and every load completes.                *)
(***************************************************************************)
\* a step of the host or of a promise reaction, the call of addImport apart
Completion ==
    \/ \E f \in 1..Len(fetches) : XhrLoad(f) \/ XhrError(f)
    \/ \E i \in 1..Len(scriptPromises) : ScriptLoad(i) \/ ScriptError(i)
    \/ \E i \in 1..Len(stylePromises) : StyleLoad(i) \/ StyleError(i)
    \/ OnDocument
    \/ OnDocumentError
    \/ OnImportDeduplicated
    \/ OnImportFetched
    \/ OnImportError
    \/ OnScripts
    \/ OnChainDone
    \/ OnRootChainDone
    \/ OnAllLoaded
    \/ OnLoadError

\* the child elements of the documents of an import graph with cycles
CycleElements ==
    {[tagName |-> "LINK", rel |-> "import", href |-> "a.html"],
     [tagName |-> "LINK", rel |-> "import", href |-> "b.html"],
     [tagName |-> "LINK", rel |-> "stylesheet", href |-> "s.css"],
     [tagName |-> "SCRIPT", src |-> "x.js"]}

\* the documents of such a graph
CycleDocs ==
    {[head |-> SubSeq(s, 1, Links(s, 1)), body |-> SubSeq(s, Links(s, 1) + 1, Len(s))] :
        s \in SeqsUpTo(CycleElements, MaxElems)}

\* the import graphs the server may hold: a.html and b.html may import
\* themselves and each other, c.html is empty
CycleWebs ==
    {[u \in Pages |-> CASE u = "lib/a.html" -> da
                        [] u = "lib/b.html" -> db
                        [] OTHER -> [head |-> << >>, body |-> << >>]] :
        da \in CycleDocs, db \in CycleDocs}

\* the state after construction, the server holding an import graph
InitFair ==
    /\ location \in PageDirs
    /\ web \in CycleWebs
    /\ fetches = << >>
    /\ scriptUrlToImportDoc = << >>
    /\ alreadyImportedUrls = {}
    /\ progress = [loaded |-> 0, total |-> 0]
    /\ stylePromises = << >>
    /\ scriptPromises = << >>
    /\ expansions = << >>
    /\ stack = << >>

\* every request is answered, every inserted element loads or fails, and
\* every promise reaction that can run does
SpecFair == InitFair /\ [][Next]_vars /\ WF_vars(Completion)

(***************************************************************************)
(* The scanner and the grouper alone, on one document.                     *)
(***************************************************************************)
\* the longest list of child elements of the document
MaxDeps == 5

\* the child elements of the document: those of Elements, and one that is
\* neither a link nor a script
GroupElements == Elements \cup {[tagName |-> "DIV"]}

\* the documents the server may hold for the root's url
GroupDocs ==
    {[head |-> SubSeq(s, 1, Links(s, 1)), body |-> SubSeq(s, Links(s, 1) + 1, Len(s))] :
        s \in SeqsUpTo(GroupElements, MaxDeps)}

\* the state after construction, the server holding the document
InitGroup ==
    /\ location \in PageDirs
    /\ web \in {[u \in RootUrls |-> doc] : doc \in GroupDocs}
    /\ fetches = << >>
    /\ scriptUrlToImportDoc = << >>
    /\ alreadyImportedUrls = {}
    /\ progress = [loaded |-> 0, total |-> 0]
    /\ stylePromises = << >>
    /\ scriptPromises = << >>
    /\ expansions = << >>
    /\ stack = << >>

\* lines 212-219 for the document of url: the scan of the head and of the
\* body, and the call of GroupDependencies on what the scan found
Organise(url) ==
    /\ expansions = << >>
    /\ LET importDoc == Document(1)
           baseUrl == GetPathFromURL(url)
           inHead == FindImportElements(web[url].head, 1,
                        [dependencies |-> << >>, map |-> scriptUrlToImportDoc,
                         importDoc |-> importDoc], baseUrl)
           context == FindImportElements(web[url].body, 1, inHead, baseUrl)
           organisedDeps == GroupDependencies(context.dependencies)
       IN /\ scriptUrlToImportDoc' = context.map
          /\ expansions' = <<[url |-> url, importDoc |-> importDoc, baseUrl |-> baseUrl,
                              dependencies |-> context.dependencies,
                              organisedDeps |-> organisedDeps]>>
    /\ UNCHANGED <<location, web, fetches, alreadyImportedUrls, progress, stylePromises,
                   scriptPromises, stack>>

NextGroup == \E url \in RootUrls : Organise(url)

SpecGroup == InitGroup /\ [][NextGroup]_vars

(***************************************************************************)
(* Notions the properties are stated with.                                 *)
(***************************************************************************)
\* addImport has been called
Called == expansions # << >>

\* the promise addImport returned
RootResult == expansions[1].result

\* the promise addImport returned has settled
RootSettled == Called /\ RootResult # Pending

\* the import urls the document served for u links to
Imported(u) ==
    LET children == web[u].head \o web[u].body
    IN {GetPathFromURL(u) \o children[i].href :
           i \in {k \in 1..Len(children) :
                    children[k].tagName = "LINK" /\ children[k].rel = "import"}}

RECURSIVE ReachableFrom(_, _)
\* the urls reached from those of S through the import links of at most n
\* documents in a row
ReachableFrom(S, n) ==
    IF n = 0 THEN S
    ELSE ReachableFrom(S \cup UNION {Imported(u) : u \in S \cap DOMAIN web}, n - 1)

\* no document served so far imports itself, directly or through others
Acyclic ==
    \A u \in DOMAIN web : u \notin ReachableFrom(Imported(u), Cardinality(Pages))

\* the calls of _AddImport for the url u
ExpansionsOf(u) == {e \in 1..Len(expansions) : expansions[e].url = u}

\* the call e has scanned its document
Scanned(e) == expansions[e].st # "load" /\ expansions[e].importDoc # Undefined

\* the script tag of the descriptor at pos of the call e has been inserted
Initiated(e, pos) ==
    \E j \in 1..Len(scriptPromises) :
        scriptPromises[j].exp = e /\ scriptPromises[j].pos = pos

\* the descriptors of one type of the call e
DepsOf(e, type) ==
    {expansions[e].dependencies[i] :
        i \in {k \in 1..Len(expansions[e].dependencies) :
                 expansions[e].dependencies[k].type = type}}

\* some call for the url u has scanned its document and inserted the tags
\* of all of that document's scripts
OwnScriptsInitiated(u) ==
    \E e \in ExpansionsOf(u) :
        Scanned(e) /\ \A d \in DepsOf(e, "script") : Initiated(e, d.pos)

(***************************************************************************)
(* The properties.                                                         *)
(***************************************************************************)

\* C1: a script tag is never inserted until every import link that precedes
\* the script in its document has had all of its own scripts' tags
\* inserted.  Stated for the runs in which nothing has failed and no
\* document imports itself, directly or through others.
C1_ScriptsWaitForPrecedingImports ==
    [][(Failures = 0 /\ Acyclic) =>
        \A j \in (Len(scriptPromises) + 1)..Len(scriptPromises') :
            \A d \in DepsOf(scriptPromises'[j].exp, "import") :
                d.pos < scriptPromises'[j].pos => OwnScriptsInitiated(d.url)]_vars

\* C2: of two scripts of one document, the tag of the earlier one is
\* inserted before the tag of the later one.
C2_ScriptsInDocumentOrder ==
    \A j \in 1..Len(scriptPromises) :
        \A d \in DepsOf(scriptPromises[j].exp, "script") :
            d.pos < scriptPromises[j].pos =>
                \E i \in 1..(j - 1) :
                    /\ scriptPromises[i].exp = scriptPromises[j].exp
                    /\ scriptPromises[i].pos = d.pos

\* C2's case: two scripts of one document have had their tags inserted
C2_Witness ==
    \E i, j \in 1..Len(scriptPromises) :
        /\ scriptPromises[i].exp = scriptPromises[j].exp
        /\ scriptPromises[i].pos < scriptPromises[j].pos
        /\ scriptPromises[i].url # scriptPromises[j].url

\* C3: every import url of the tree, the root's or a nested one, is fetched
\* exactly once, and progress.total counts it once.  Stated for the runs in
\* which nothing has failed.
C3_EachUrlFetchedOnce ==
    Failures = 0 =>
        /\ \A f, g \in 1..Len(fetches) : fetches[f].url = fetches[g].url => f = g
        /\ Called => progress.total = Cardinality({fetches[f].url : f \in 1..Len(fetches)})

\* C4: every import url is expanded exactly once, also when two links of
\* one document name it.  Stated for the runs in which nothing has failed
\* and no document imports itself, directly or through others.
C4_EachUrlExpandedOnce ==
    (Failures = 0 /\ Acyclic) =>
        \A e, g \in 1..Len(expansions) : expansions[e].url = expansions[g].url => e = g

\* C5: until the promise addImport returned has settled, progress.total is
\* greater than progress.loaded, and progress.loaded never exceeds
\* progress.total.  Stated for the runs in which no document imports
\* itself, directly or through others.
C5_TotalExceedsLoaded ==
    (Called /\ Acyclic) =>
        /\ RootResult = Pending => progress.total > progress.loaded
        /\ progress.loaded <= progress.total

\* C6: when the promise addImport returned has settled, progress.loaded
\* equals progress.total, and progress.total is 1 plus the number of
\* distinct nested imports.  Stated for the runs in which nothing has
\* failed and no document imports itself, directly or through others.
C6_LoadedEqualsTotalAtEnd ==
    (RootSettled /\ Failures = 0 /\ Acyclic) =>
        /\ progress.loaded = progress.total
        /\ progress.total = 1 + Cardinality(alreadyImportedUrls)

\* the request the call e sent for the import descriptor d has failed
PrefetchFailed(e, d) ==
    /\ d.url \in DOMAIN expansions[e].subImportFetches
    /\ fetches[expansions[e].subImportFetches[d.url]].state = "fail"

\* the document the call e fetched for the import descriptor d has arrived
\* and has been expanded
Expanded(e, d) ==
    (/\ d.url \in DOMAIN expansions[e].subImportFetches
     /\ fetches[expansions[e].subImportFetches[d.url]].state = "ok")
    => \E g \in ExpansionsOf(d.url) :
          expansions[g].doc = expansions[e].subImportFetches[d.url] /\ Scanned(g)

\* C7: when the fetch of a nested import fails, the imports and the scripts
\* declared after it in the same document are still expanded and initiated:
\* once the promise addImport returned has settled, they all have been.
\* Stated for the runs in which no document imports itself, directly or
\* through others.
C7_FailureContained ==
    (RootSettled /\ Acyclic) =>
        \A e \in 1..Len(expansions) :
            \A d \in DepsOf(e, "import") :
                PrefetchFailed(e, d) =>
                    /\ \A s \in DepsOf(e, "script") : s.pos > d.pos => Initiated(e, s.pos)
                    /\ \A m \in DepsOf(e, "import") : m.pos > d.pos => Expanded(e, m)

\* an error occurred in the chain of the call e: its document could not be
\* fetched, a request it sent for a nested import failed or, for the root,
\* a script or a stylesheet failed to load
ErrorIn(e) ==
    \/ fetches[expansions[e].doc].state = "fail"
    \/ \E u \in DOMAIN expansions[e].subImportFetches :
          fetches[expansions[e].subImportFetches[u]].state = "fail"
    \/ expansions[e].isRoot /\ SomeFailed

\* C8: the promise of a call of _AddImport is never rejected: it is
\* pending, or fulfilled with the call's own document when no error
\* occurred in its chain, or fulfilled with undefined when one did.
C8_ResolvesWithDocumentOrUndefined ==
    \A e \in 1..Len(expansions) :
        \/ expansions[e].result = Pending
        \/ /\ expansions[e].result = Fulfilled(Document(expansions[e].doc))
           /\ ~ErrorIn(e)
        \/ /\ expansions[e].result = Fulfilled(Undefined)
           /\ ErrorIn(e)

\* C8's case: a call has resolved with undefined after an error, and
\* another with its document
C8_Witness ==
    \E e, g \in 1..Len(expansions) :
        /\ expansions[e].result = Fulfilled(Undefined)
        /\ ~expansions[e].isRoot
        /\ expansions[g].result = Fulfilled(Document(expansions[g].doc))

\* no inserted script or stylesheet is still loading
NoLoadPending ==
    /\ \A i \in 1..Len(scriptPromises) : scriptPromises[i].state # "pending"
    /\ \A i \in 1..Len(stylePromises) : stylePromises[i].state # "pending"

C10_ScriptSeesItsOwnDocument ==
    (Failures = 0 /\ Acyclic) =>
        \A i \in 1..Len(scriptPromises) :
            scriptPromises[i].state = "fulfilled" =>
                IF CurrentScriptSrc(scriptPromises[i].url) \in DOMAIN scriptUrlToImportDoc
                THEN scriptPromises[i].currentDoc = expansions[scriptPromises[i].exp].importDoc
                ELSE scriptPromises[i].currentDoc = MainDocument

\* no import link lies between the descriptors at p and at q of the call e
SameRun(e, p, q) ==
    \A m \in DepsOf(e, "import") : ~(p < m.pos /\ m.pos < q) /\ ~(q < m.pos /\ m.pos < p)

\* the script tags a step inserts
Inserted == (Len(scriptPromises) + 1)..Len(scriptPromises')

\* C11: the scripts of a maximal run of scripts of one document (no import
\* link between them; stylesheets between them do not break the run) have
\* their tags inserted in one step, in document order: the step that inserts
\* one of them inserts them all and nothing but them, completes no request
\* and no load, inserts no stylesheet, and leaves all of them loading.
C11_RunInitiatedInOneStep ==
    [][\A j \in Inserted :
          LET e == scriptPromises'[j].exp
              pos == scriptPromises'[j].pos
          IN /\ \A d \in DepsOf(e, "script") :
                    SameRun(e, d.pos, pos) =>
                        \E k \in Inserted :
                            /\ scriptPromises'[k].exp = e
                            /\ scriptPromises'[k].pos = d.pos
                            /\ d.pos < pos => k < j
             /\ \A k \in Inserted :
                    /\ scriptPromises'[k].exp = e
                    /\ SameRun(e, scriptPromises'[k].pos, pos)
                    /\ scriptPromises'[k].state = "pending"
             /\ \A k \in 1..Len(scriptPromises) : scriptPromises'[k] = scriptPromises[k]
             /\ fetches' = fetches
             /\ stylePromises' = stylePromises
             /\ Len(expansions') = Len(expansions)]_vars

\* C11's case: the tags of two scripts with a stylesheet between them in
\* their document have been inserted
C11_Witness ==
    \E i, j \in 1..Len(scriptPromises) :
        /\ scriptPromises[i].exp = scriptPromises[j].exp
        /\ scriptPromises[i].pos + 1 < scriptPromises[j].pos
        /\ \E d \in DepsOf(scriptPromises[i].exp, "stylesheet") :
              scriptPromises[i].pos < d.pos /\ d.pos < scriptPromises[j].pos
        /\ SameRun(scriptPromises[i].exp, scriptPromises[i].pos, scriptPromises[j].pos)

\* the urls of the import links of the document served for u, in document
\* order
LinksOf(u) ==
    LET children == web[u].head \o web[u].body
        IsImport(elem) == elem.tagName = "LINK" /\ elem.rel = "import"
        links == SelectSeq(children, IsImport)
    IN [i \in 1..Len(links) |-> GetPathFromURL(u) \o links[i].href]

\* the documents served so far make a chain: a.html imports b.html and
\* nothing else, b.html imports c.html and nothing else, c.html imports
\* nothing
Chain ==
    \A u \in DOMAIN web :
        LinksOf(u) = CASE u = "lib/a.html" -> <<"lib/b.html">>
                       [] u = "lib/b.html" -> <<"lib/c.html">>
                       [] OTHER -> << >>

\* the i-th script tag is of a document whose import link precedes, in the
\* document of the j-th script tag, the script of that tag
TagOfPrecedingImport(i, j) ==
    \E d \in DepsOf(scriptPromises[j].exp, "import") :
        /\ d.url = expansions[scriptPromises[i].exp].url
        /\ d.pos < scriptPromises[j].pos

\* C12 as claimed: in a chain, when a script tag of an imported document is
\* inserted, the tags of the importing document's scripts that follow the
\* import link (for b.html: of all its scripts) have been inserted before.
C12_ImportedScriptsAfterImporting ==
    Chain =>
        \A i \in 1..Len(scriptPromises) :
            \A e \in 1..Len(expansions) :
                \A m \in DepsOf(e, "import") :
                    m.url = expansions[scriptPromises[i].exp].url =>
                        \A d \in DepsOf(e, "script") :
                            (d.pos > m.pos \/ expansions[e].url = "lib/b.html") =>
                                \E k \in 1..(i - 1) :
                                    scriptPromises[k].exp = e /\ scriptPromises[k].pos = d.pos

\* C12 as amended: in a chain, the script tags of an imported document are
\* inserted before the tag of any script that follows the import link in
\* the importing document.
C12_ImportedScriptsBeforeLaterScripts ==
    Chain =>
        \A i, j \in 1..Len(scriptPromises) : TagOfPrecedingImport(i, j) => i < j

\* C12's case: in a chain of three documents, script tags of c.html, of
\* b.html after its link to c.html and of a.html after its link to b.html
\* have been inserted
C12_Witness ==
    /\ Chain
    /\ DOMAIN web = Pages
    /\ \E i, j, k \in 1..Len(scriptPromises) :
          /\ expansions[scriptPromises[i].exp].url = "lib/c.html"
          /\ expansions[scriptPromises[j].exp].url = "lib/b.html"
          /\ expansions[scriptPromises[k].exp].url = "lib/a.html"
          /\ TagOfPrecedingImport(i, j)
          /\ TagOfPrecedingImport(j, k)

\* the import links of the documents served so far
NumLinks ==
    LET RECURSIVE Sum(_)
        Sum(S) == IF S = {} THEN 0
                  ELSE LET u == CHOOSE v \in S : TRUE
                       IN Len(LinksOf(u)) + Sum(S \ {u})
    IN Sum(DOMAIN web)

\* at most one request per url and one more for the root's, at most one
\* call of _AddImport per import link and one more for the root
FinitelyMany ==
    /\ Len(fetches) <= Cardinality(Pages) + 1
    /\ Len(expansions) <= NumLinks + 1

OnlyLoadsOutstanding ==
    /\ Called
    /\ \A f \in 1..Len(fetches) : fetches[f].state = "ok"
    /\ \A i \in 1..Len(scriptPromises) : scriptPromises[i].state = "pending"
    /\ \A i \in 1..Len(stylePromises) : stylePromises[i].state = "pending"
    /\ ~Runnable

\* C14: the chain of groups waits for no script and no stylesheet to load:
\* with every request answered and no load completed, every document
\* fetched has been expanded, every script of every expansion has had its
\* tag inserted, every call for a sub-import has resolved with its document
\* and been counted in progress.loaded, and the root alone is pending,
\* waiting for the loads (when there is any).
C14_ChainNeverWaitsForLoads ==
    OnlyLoadsOutstanding =>
        /\ \A f \in 1..Len(fetches) :
              \E e \in 1..Len(expansions) : expansions[e].doc = f /\ Scanned(e)
        /\ \A e \in 1..Len(expansions) :
              /\ Scanned(e)
              /\ \A d \in DepsOf(e, "script") : Initiated(e, d.pos)
              /\ ~expansions[e].isRoot =>
                    expansions[e].result = Fulfilled(Document(expansions[e].doc))
        /\ progress.loaded = IF RootSettled THEN Len(expansions) ELSE Len(expansions) - 1
        /\ (Len(scriptPromises) + Len(stylePromises) > 0) =>
              RootResult = Pending /\ expansions[1].st = "all"

\* C14's case: with no load completed, a sub-import that declared a script
\* and one that declared a stylesheet have resolved and the root is pending
C14_Witness ==
    /\ OnlyLoadsOutstanding
    /\ RootResult = Pending
    /\ \E i \in 1..Len(scriptPromises) : expansions[scriptPromises[i].exp].result # Pending
    /\ \E i \in 1..Len(stylePromises) : expansions[stylePromises[i].exp].result # Pending
    /\ \E i \in 1..Len(scriptPromises) : scriptPromises[i].exp = 1

\* the stylesheet descriptors of a list of descriptors, in order
Stylesheets(dependencies) ==
    LET IsStylesheet(dep) == dep.type = "stylesheet"
    IN SelectSeq(dependencies, IsStylesheet)

\* the call e was made by the call p: its document comes from a request p
\* sent
CalledBy(e, p) ==
    \E u \in DOMAIN expansions[p].subImportFetches :
        expansions[p].subImportFetches[u] = expansions[e].doc

\* C15: the step that scans a document inserts the link elements of all the
\* stylesheets the document declares, in document order and wherever they
\* stand in it, and nothing of that document has been started before: none
\* of its scripts has a tag and none of its imports is expanded.  No other
\* step inserts a stylesheet.
C15_StylesheetsInitiatedAtScan ==
    [][/\ \A e \in 1..Len(expansions) :
              (expansions[e].st = "load" /\ expansions'[e].st # "load"
                 /\ expansions'[e].importDoc # Undefined) =>
                  LET sheets == Stylesheets(expansions'[e].dependencies)
                  IN /\ stylePromises' = stylePromises \o
                           [i \in 1..Len(sheets) |->
                               [url |-> sheets[i].url, state |-> "pending", exp |-> e]]
                     /\ \A j \in 1..Len(scriptPromises') : scriptPromises'[j].exp # e
                     /\ \A g \in 1..Len(expansions') : ~CalledBy(g, e)'
                     /\ expansions'[e].st = "chain"
       /\ Len(stylePromises') > Len(stylePromises) =>
              \E e \in 1..Len(expansions) :
                  expansions[e].st = "load" /\ expansions'[e].st # "load"]_vars

\* C15's case: a document whose stylesheet follows a script or an import
\* link has been scanned: the link element of the stylesheet is inserted,
\* the tag of the script is not yet, the import is not yet expanded
C15_Witness ==
    \E e \in 1..Len(expansions) :
        /\ Scanned(e)
        /\ \E i \in 1..Len(stylePromises) : stylePromises[i].exp = e
        /\ \E d \in DepsOf(e, "stylesheet") :
              \E m \in DepsOf(e, "script") \cup DepsOf(e, "import") : m.pos < d.pos
        /\ \A j \in 1..Len(scriptPromises) : scriptPromises[j].exp # e
        /\ \A g \in 1..Len(expansions) : ~CalledBy(g, e)

\* the calls the call e made, in order of call
ChildrenOf(e) ==
    LET IsChild(g) == CalledBy(g, e)
    IN SelectSeq([g \in 1..Len(expansions) |-> g], IsChild)

\* the import links of the call e for which e holds a request, in document
\* order
QueuedLinks(e) ==
    LET IsQueued(dep) ==
            dep.type = "import" /\ dep.url \in DOMAIN expansions[e].subImportFetches
    IN SelectSeq(expansions[e].dependencies, IsQueued)

\* the calls for the imports of one document are made one after another, in
\* document order, each after the one before it has resolved
ExpandedInTurn ==
    \A e \in 1..Len(expansions) :
        LET children == ChildrenOf(e)
            links == QueuedLinks(e)
        IN /\ Len(children) <= Len(links)
           /\ \A k \in 1..Len(children) :
                 /\ expansions[children[k]].url = links[k].url
                 /\ k < Len(children) => expansions[children[k]].result # Pending

\* C16: the step that scans a document sends the request of every import
\* the document declares whose url is not in the dedup set, one per url,
\* and processes none of the document's groups; the calls for the imports
\* are made in turn, in document order.
C16_ImportsFetchedAtScan ==
    [][/\ \A e \in 1..Len(expansions) :
              (expansions[e].st = "load" /\ expansions'[e].st # "load"
                 /\ expansions'[e].importDoc # Undefined) =>
                  LET new == {d.url : d \in {m \in DepsOf(e, "import")' :
                                                m.url \notin alreadyImportedUrls}}
                      sent == (Len(fetches) + 1)..Len(fetches')
                  IN /\ \A u \in new :
                           \E f \in sent :
                               /\ fetches'[f] = [url |-> u, state |-> "pending"]
                               /\ expansions'[e].subImportFetches[u] = f
                     /\ Cardinality(sent) = Cardinality(new)
                     /\ \A f \in 1..Len(fetches) : fetches'[f] = fetches[f]
                     /\ expansions'[e].gi = 1
                     /\ scriptPromises' = scriptPromises
                     /\ Len(expansions') = Len(expansions)
       /\ ExpandedInTurn']_vars

\* C16's case: the requests of two imports of one document are pending
\* together
C16_Witness ==
    \E e \in 1..Len(expansions) :
        \E u, v \in DOMAIN expansions[e].subImportFetches :
            /\ u # v
            /\ fetches[expansions[e].subImportFetches[u]].state = "pending"
            /\ fetches[expansions[e].subImportFetches[v]].state = "pending"

RECURSIVE Flatten(_)
\* the groups, one after another
Flatten(groups) == IF groups = << >> THEN << >> ELSE groups[1] \o Flatten(Tail(groups))

RECURSIVE Interleave(_, _)
\* two lists of descriptors merged by the descriptors' place in the document
Interleave(a, b) ==
    IF a = << >> THEN b
    ELSE IF b = << >> THEN a
    ELSE IF a[1].pos < b[1].pos THEN <<a[1]>> \o Interleave(Tail(a), b)
    ELSE <<b[1]>> \o Interleave(a, Tail(b))

\* the descriptors of a list that are not stylesheets, in order
NonStylesheets(dependencies) ==
    LET IsOther(dep) == dep.type # "stylesheet"
    IN SelectSeq(dependencies, IsOther)

\* C17: GroupDependencies loses, duplicates and reorders nothing: its
\* groups, one after another, are the descriptors that are not stylesheets,
\* in their order; its stylesheets are the stylesheet descriptors, in their
\* order; the two merged by place in the document give the list again.
C17_GroupingKeepsEverything ==
    \A e \in 1..Len(expansions) :
        LET dependencies == expansions[e].dependencies
            organisedDeps == expansions[e].organisedDeps
        IN /\ Flatten(organisedDeps.groups) = NonStylesheets(dependencies)
           /\ organisedDeps.stylesheets = Stylesheets(dependencies)
           /\ Interleave(Flatten(organisedDeps.groups), organisedDeps.stylesheets)
                 = dependencies

\* C17's case: a list with a stylesheet between two scripts and an import
\* has been grouped
C17_Witness ==
    \E e \in 1..Len(expansions) :
        /\ Len(expansions[e].organisedDeps.groups) >= 2
        /\ Len(expansions[e].organisedDeps.stylesheets) >= 1
        /\ \E d \in DepsOf(e, "stylesheet") :
              \E m, n \in DepsOf(e, "script") : m.pos < d.pos /\ d.pos < n.pos
        /\ DepsOf(e, "import") # {}

\* C18: every group is non-empty and of one type, import or script; an
\* import group has one element; no two groups in a row are script groups;
\* so the loop of lines 253-291 does not throw.
C18_GroupsWellFormed ==
    \A e \in 1..Len(expansions) :
        LET groups == expansions[e].organisedDeps.groups
        IN /\ \A i \in 1..Len(groups) :
                 /\ Len(groups[i]) >= 1
                 /\ groups[i][1].type \in {"import", "script"}
                 /\ \A k \in 1..Len(groups[i]) : groups[i][k].type = groups[i][1].type
                 /\ groups[i][1].type = "import" => Len(groups[i]) = 1
           /\ \A i \in 1..(Len(groups) - 1) :
                 ~(groups[i][1].type = "script" /\ groups[i + 1][1].type = "script")
           /\ ~ChainThrows(groups)

\* C18's case: a list with two import links in a row and with two scripts
\* that only a stylesheet separates has been grouped
C18_Witness ==
    \E e \in 1..Len(expansions) :
        /\ \E m, n \in DepsOf(e, "import") : n.pos = m.pos + 1
        /\ \E m, n \in DepsOf(e, "script") :
              \E d \in DepsOf(e, "stylesheet") : d.pos = m.pos + 1 /\ n.pos = d.pos + 1
        /\ Len(expansions[e].organisedDeps.groups) = 3

\* C19: when the tag of a script is inserted, the script-origin map holds
\* an entry for the url of that script as the page resolves it, the one
\* getImportDocument() looks up when the script runs; the entry was written
\* when the document was scanned and is never removed.
C19_MapHoldsScriptWhenInitiated ==
    [][/\ \A j \in Inserted :
              CurrentScriptSrc(scriptPromises'[j].url) \in DOMAIN scriptUrlToImportDoc
       /\ DOMAIN scriptUrlToImportDoc \subseteq DOMAIN scriptUrlToImportDoc']_vars

\* C20: when the promise addImport returned has settled and nothing has
\* failed, every document reached from the root through import links has
\* been expanded and all the scripts it declares have had their tags
\* inserted, de-duplicated links or not.
C20_DedupDropsNothing ==
    (RootSettled /\ Failures = 0) =>
        \A u \in ReachableFrom({expansions[1].url}, Cardinality(Pages)) :
            u \in DOMAIN web /\ OwnScriptsInitiated(u)

\* C20's case: the root has resolved with its document after a call skipped
\* a link to a document that another call had queued and that declares a
\* script
C20_Witness ==
    /\ RootSettled
    /\ Failures = 0
    /\ Acyclic
    /\ \E e \in 1..Len(expansions) :
          /\ ~expansions[e].isRoot
          /\ \E d \in DepsOf(e, "import") :
                /\ d.url \notin DOMAIN expansions[e].subImportFetches
                /\ \E g \in ExpansionsOf(d.url) : DepsOf(g, "script") # {}

=============================================================================
